---- MODULE Spec2Model ----
(***************************************************************************)
(* A model of the interactive shell of src/shell.c: the read, tokenize,    *)
(* execute loop (shell_repl), its helpers, and the processes it creates.   *)
(* Characters are their ASCII codes; a C string is the run of characters   *)
(* from an offset of a buffer up to the next terminator (0).  Buffers are  *)
(* sequences indexed from 1, so C index i is element i + 1.                *)
(***************************************************************************)
EXTENDS Integers, Sequences, FiniteSets, TLC

(***************************************************************************)
(* Bounds of the model.                                                    *)
(***************************************************************************)
\* Number of process slots (the shell is process 1); fork fails when none is free.
MaxProcs == 3
\* Number of chunks (lines) the input stream delivers before end-of-stream.
MaxLines == 2
\* Longest line built from ShortAlphabet.
MaxLen == 1

(***************************************************************************)
(* Program constants.                                                      *)
(***************************************************************************)
SHELL_INPUT_BUFFER_SIZE == 1024
SHELL_INPUT_BUFFER_GROWTH == 2
SHELL_INPUT_TOKEN_CHARS == {32, 9, 13, 10, 7}
SHELL_EXECUTE_BACKGROUND_TOKEN == 38
\* getchar's end-of-stream value, and the null pointer (as a token offset).
EOF == -1
NULL == -1
\* '\n' and '\0'
NL == 10
NUL == 0
\* sizeof(char*), the size of one slot of the token buffer
PtrSize == 8
\* The value of a token slot that lies outside the storage realloc kept.
Indeterminate == -2

Str_exit == <<101, 120, 105, 116>>
Str_quit == <<113, 117, 105, 116>>

(***************************************************************************)
(* The input lines of the model.                                           *)
(***************************************************************************)
\* 'x', space, '&'
ShortAlphabet == {120, 32, 38}

SeqsUpTo(S, n) == UNION {[1..k -> S] : k \in 0..n}

Rep(s, n) == [i \in 1..(n * Len(s)) |-> s[((i - 1) % Len(s)) + 1]]

\* Lines around the built-in keywords and the other delimiter characters.
KeywordLines ==
    { Str_exit, Str_quit,
      Str_exit \o <<32, 120>>,          \* "exit x"
      Str_quit \o <<38>>,               \* "quit&"
      <<32>> \o Str_exit,               \* " exit"
      <<69, 120, 105, 116>>,            \* "Exit"
      <<101, 120, 105>>,                \* "exi"
      Str_exit \o <<120>>,              \* "exitx"
      <<120, 32>> \o Str_quit,          \* "x quit"
      <<9>>, <<13>>, <<7>>,             \* tab, CR, alert
      <<32, 9, 13, 7>>,
      <<9, 38>>,                        \* "\t&"
      <<108, 115, 32, 45, 108, 97, 32, 38>>,   \* "ls -la &"
      <<108, 115, 32, 45, 108, 97>>,           \* "ls -la"
      <<32, 32, 108, 115, 32, 32, 32, 45, 108, 97, 32, 32>> }  \* "  ls   -la  "

\* Lines that reach the growth of the line buffer and of the token buffer.
BulkLines ==
    { Rep(<<120>>, SHELL_INPUT_BUFFER_SIZE),
      Rep(<<120, 32>>, SHELL_INPUT_BUFFER_SIZE),
      Rep(<<120, 32>>, SHELL_INPUT_BUFFER_SIZE) \o <<SHELL_EXECUTE_BACKGROUND_TOKEN>> }

ShortLines == SeqsUpTo(ShortAlphabet, MaxLen) \cup KeywordLines

\* The lines typed at any place of a session: a command, a background
\* command, and a keyword.
SessionLines ==
    { <<120>>, <<120, 38>>, Str_exit }

\* What one read of the stream can deliver as chunk number n + 1: a line with
\* its newline, or a last partial line (end-of-stream follows it).  The first
\* line of a session is any line of the model, the later ones are SessionLines.
Lines(n) == IF n = 0 THEN ShortLines \cup BulkLines \cup SessionLines ELSE SessionLines

\* The partial lines a stream can end with: any non-empty first line; a later
\* chunk is a whole line or the end of the stream.
PartialLines(n) == IF n = 0 THEN Lines(0) \ {<<>>} ELSE {}

(***************************************************************************)
(* C library functions.                                                    *)
(***************************************************************************)
Min(S) == CHOOSE x \in S : \A y \in S : x <= y

\* The C string at offset off of buf ends at offset off + i.
EndsAt(buf, off, i) == off + i + 1 > Len(buf) \/ buf[off + i + 1] = NUL

\* strlen of the C string at offset off of buf.
StrLenAt(buf, off) ==
    CHOOSE i \in 0..Len(buf) :
        EndsAt(buf, off, i) /\ \A j \in 0..(i - 1) : ~EndsAt(buf, off, j)

\* The C string at offset off of buf.
CStr(buf, off) == SubSeq(buf, off + 1, off + StrLenAt(buf, off))

\* strspn from offset off: the length of the initial run of characters in accept.
StrSpnAt(buf, off, accept) ==
    CHOOSE i \in 0..Len(buf) :
        /\ EndsAt(buf, off, i) \/ buf[off + i + 1] \notin accept
        /\ \A j \in 0..(i - 1) : ~EndsAt(buf, off, j) /\ buf[off + j + 1] \in accept

\* strcspn from offset off: the length of the initial run of characters not in reject.
StrCSpnAt(buf, off, reject) ==
    CHOOSE i \in 0..Len(buf) :
        /\ EndsAt(buf, off, i) \/ buf[off + i + 1] \in reject
        /\ \A j \in 0..(i - 1) : ~EndsAt(buf, off, j) /\ buf[off + j + 1] \notin reject

\* strtok continued at offset from (the saved pointer, or the string's start):
\* the token's offset or NULL, the buffer with the token's end overwritten by
\* the terminator, and the new saved pointer.
StrTok(buf, from, delims) ==
    LET start == from + StrSpnAt(buf, from, delims)
        stop  == start + StrCSpnAt(buf, start, delims)
    IN  IF EndsAt(buf, start, 0)
        THEN [token |-> NULL, buf |-> buf, save |-> start]
        ELSE IF EndsAt(buf, stop, 0)
        THEN [token |-> start, buf |-> buf, save |-> stop]
        ELSE [token |-> start, buf |-> [buf EXCEPT ![stop + 1] = NUL], save |-> stop + 1]

\* buf with character c stored at C index i (the written prefix grows by one
\* when i is its length).
Store(buf, i, c) == IF i + 1 <= Len(buf) THEN [buf EXCEPT ![i + 1] = c] ELSE Append(buf, c)

(***************************************************************************)
(* State.                                                                  *)
(***************************************************************************)
VARIABLES
    pstate,     \* per process slot: "free", "run", "stopped", "zombie" (ended, not reaped)
    image,      \* per process: "shell" (this program) or "prog" (after execvp)
    parent,     \* per process: the process that forked it (0: none)
    pc,         \* per shell process: the statement it is at
    term,       \* per process: how it ended ("none", "exit0", "exit1", "signal")
    stopSeen,   \* per process: its current stop was reported to a waitpid
    sh,         \* per shell process: the variables of shell.c
    stdio,      \* per process: the characters stdio has read and getchar not yet returned
    linesRead,  \* chunks delivered by the input stream so far
    eof,        \* the input stream is exhausted
    lastOut,    \* per process: the last thing written to stdout
    diag,       \* per process: the diagnostic written to stderr in this iteration
    rawLine,    \* per shell process: the line as shell_read_input returned it
    execFailed, \* per process: it is a child whose execvp failed
    bgChild,    \* per process: it was forked by a background command
    sigchld     \* the disposition of SIGCHLD the shell was started with

vars == <<pstate, image, parent, pc, term, stopSeen, sh, stdio, linesRead, eof,
          lastOut, diag, rawLine, execFailed, bgChild, sigchld>>

Procs == 1..MaxProcs

\* The variables of shell.c before shell_repl's first statement.
InitialSh ==
    [ should_exit        |-> 0,
      input              |-> <<>>,     \* written prefix of the line buffer
      inputAlloc         |-> 0,        \* bytes of the live line buffer (0: none)
      buffer_pos         |-> 0,
      line_size          |-> 0,        \* current_buffer_size of shell_read_input
      token_buffer       |-> <<>>,     \* written prefix of the token buffer
      tokAlloc           |-> 0,        \* bytes of the live token buffer (0: none)
      token_buffer_pos   |-> 0,
      tok_size           |-> 0,        \* current_buffer_size of shell_tokenize_input
      token              |-> NULL,
      save               |-> 0,        \* strtok's saved pointer
      background_execute |-> 0,
      pid                |-> 0,
      status             |-> "none",
      corrupt            |-> FALSE ]   \* a write outside allocated storage happened

Init ==
    /\ pstate = [p \in Procs |-> IF p = 1 THEN "run" ELSE "free"]
    /\ image = [p \in Procs |-> "shell"]
    /\ parent = [p \in Procs |-> 0]
    /\ pc = [p \in Procs |-> IF p = 1 THEN "loop" ELSE "none"]
    /\ term = [p \in Procs |-> "none"]
    /\ stopSeen = [p \in Procs |-> FALSE]
    /\ sh = [p \in Procs |-> InitialSh]
    /\ stdio = [p \in Procs |-> <<>>]
    /\ linesRead = 0
    /\ eof = FALSE
    /\ lastOut = [p \in Procs |-> "none"]
    /\ diag = [p \in Procs |-> "none"]
    /\ rawLine = [p \in Procs |-> <<>>]
    /\ execFailed = [p \in Procs |-> FALSE]
    /\ bgChild = [p \in Procs |-> FALSE]
    /\ sigchld \in {"default", "ignored"}

Running(p) == pstate[p] = "run" /\ image[p] = "shell"

\* The process ends: exit(), return from main, or a fatal signal.
Terminate(p, how) ==
    /\ pstate' = [pstate EXCEPT ![p] = "zombie"]
    /\ term' = [term EXCEPT ![p] = how]
    /\ pc' = [pc EXCEPT ![p] = "ended"]

\* Mutant of shell_not_null: the message is printed and the process goes on.
shell_not_null_NoExit(p, ok, message, next, newSh) ==
    /\ sh' = [sh EXCEPT ![p] = newSh]
    /\ pc' = [pc EXCEPT ![p] = next]
    /\ diag' = [diag EXCEPT ![p] = IF ok THEN @ ELSE message]
    /\ UNCHANGED <<pstate, term>>

(***************************************************************************)
(* shell_not_null, applied to the result of an allocation, newSh being the *)
(* variables as the statements up to the allocation left them: the process *)
(* goes on at next, or prints message and ends with status 1.              *)
(***************************************************************************)
shell_not_null(p, ok, message, next, newSh) ==
    IF ok
    THEN /\ sh' = [sh EXCEPT ![p] = newSh]
         /\ pc' = [pc EXCEPT ![p] = next]
         /\ UNCHANGED <<pstate, term, diag>>
    ELSE /\ sh' = [sh EXCEPT ![p] = newSh]
         /\ diag' = [diag EXCEPT ![p] = message]
         /\ Terminate(p, "exit1")

(***************************************************************************)
(* shell_repl                                                              *)
(***************************************************************************)
\* Mutant of Loop: the loop condition is not tested (while (1)).
Loop_Forever(p) ==
    /\ Running(p) /\ pc[p] = "loop"
    /\ lastOut' = [lastOut EXCEPT ![p] = "prompt"]
    /\ diag' = [diag EXCEPT ![p] = "none"]
    /\ pc' = [pc EXCEPT ![p] = "read_alloc"]
    /\ UNCHANGED <<pstate, image, parent, term, stopSeen, sh, stdio, linesRead, eof,
                   rawLine, execFailed, bgChild>>
    /\ UNCHANGED sigchld

\* while (should_exit != 1) { printf(SHELL_PROMPT); ...
Loop(p) ==
    /\ Running(p) /\ pc[p] = "loop"
    /\ IF sh[p].should_exit # 1
       THEN /\ lastOut' = [lastOut EXCEPT ![p] = "prompt"]
            /\ diag' = [diag EXCEPT ![p] = "none"]
            /\ pc' = [pc EXCEPT ![p] = "read_alloc"]
       ELSE /\ pc' = [pc EXCEPT ![p] = "puts"]
            /\ UNCHANGED <<lastOut, diag>>
    /\ UNCHANGED <<pstate, image, parent, term, stopSeen, sh, stdio, linesRead, eof,
                   rawLine, execFailed, bgChild>>
    /\ UNCHANGED sigchld

\* puts(""); return to main, which returns 0
Puts(p) ==
    /\ Running(p) /\ pc[p] = "puts"
    /\ lastOut' = [lastOut EXCEPT ![p] = "newline"]
    /\ Terminate(p, "exit0")
    /\ UNCHANGED <<image, parent, stopSeen, sh, stdio, linesRead, eof, diag,
                   rawLine, execFailed, bgChild>>
    /\ UNCHANGED sigchld

(***************************************************************************)
(* shell_read_input                                                        *)
(***************************************************************************)
\* calloc of the line buffer and the check of its result
ReadAlloc(p) ==
    /\ Running(p) /\ pc[p] = "read_alloc"
    /\ \E ok \in BOOLEAN :
         shell_not_null(p, ok, "SHELL_ERROR_BUFFER_ALLOC", "read_char",
            IF ok
            THEN [sh[p] EXCEPT !.line_size = SHELL_INPUT_BUFFER_SIZE,
                               !.inputAlloc = SHELL_INPUT_BUFFER_SIZE * (1 * SHELL_INPUT_BUFFER_SIZE),
                               !.input = <<>>,
                               !.buffer_pos = 0]
            ELSE [sh[p] EXCEPT !.line_size = SHELL_INPUT_BUFFER_SIZE])
    /\ UNCHANGED <<image, parent, stopSeen, stdio, linesRead, eof, lastOut,
                   rawLine, execFailed, bgChild>>
    /\ UNCHANGED sigchld

\* What getchar can return to p, with the stdio buffer, stream position and
\* end-of-stream state it leaves.
GetChar(p) ==
    IF stdio[p] # <<>>
    THEN {[c |-> Head(stdio[p]), rest |-> Tail(stdio[p]), n |-> linesRead, eof |-> eof]}
    ELSE {[c |-> EOF, rest |-> <<>>, n |-> linesRead, eof |-> TRUE]}
         \cup (IF eof \/ linesRead >= MaxLines THEN {}
               ELSE {[c |-> Head(l \o <<NL>>), rest |-> Tail(l \o <<NL>>),
                      n |-> linesRead + 1, eof |-> FALSE] : l \in Lines(linesRead)}
                    \cup
                    {[c |-> Head(l), rest |-> Tail(l), n |-> linesRead + 1, eof |-> TRUE]
                        : l \in PartialLines(linesRead)})

\* Mutant of ReadChar: the growth factor is not applied (the buffer is
\* reallocated at its current capacity).
ReadChar_NoGrowthFactor(p) ==
    /\ Running(p) /\ pc[p] = "read_char"
    /\ \E g \in GetChar(p) :
         /\ stdio' = [stdio EXCEPT ![p] = g.rest]
         /\ linesRead' = g.n
         /\ eof' = g.eof
         /\ IF g.c = EOF \/ g.c = NL
            THEN /\ sh' = [sh EXCEPT ![p].input = Store(@, sh[p].buffer_pos, NUL),
                                     ![p].buffer_pos = 0,
                                     ![p].line_size = 0]
                 /\ rawLine' = [rawLine EXCEPT ![p] = CStr(Store(sh[p].input, sh[p].buffer_pos, NUL), 0)]
                 /\ pc' = [pc EXCEPT ![p] = "check_empty"]
                 /\ UNCHANGED <<pstate, term, diag>>
            ELSE LET pos == sh[p].buffer_pos + 1
                     written == [sh[p] EXCEPT !.input = Store(@, sh[p].buffer_pos, g.c),
                                              !.buffer_pos = pos]
                 IN  /\ UNCHANGED rawLine
                     /\ IF pos >= sh[p].line_size
                        THEN \E ok \in BOOLEAN :
                               shell_not_null(p, ok, "SHELL_ERROR_BUFFER_ALLOC", "read_char",
                                  IF ok THEN [written EXCEPT !.inputAlloc = sh[p].line_size]
                                  ELSE written)
                        ELSE /\ sh' = [sh EXCEPT ![p] = written]
                             /\ UNCHANGED <<pstate, term, diag, pc>>
    /\ UNCHANGED <<image, parent, stopSeen, lastOut, execFailed, bgChild>>
    /\ UNCHANGED sigchld

\* One iteration of the reading loop.
ReadChar(p) ==
    /\ Running(p) /\ pc[p] = "read_char"
    /\ \E g \in GetChar(p) :
         /\ stdio' = [stdio EXCEPT ![p] = g.rest]
         /\ linesRead' = g.n
         /\ eof' = g.eof
         /\ IF g.c = EOF \/ g.c = NL
            THEN /\ sh' = [sh EXCEPT ![p].input = Store(@, sh[p].buffer_pos, NUL),
                                     ![p].buffer_pos = 0,
                                     ![p].line_size = 0]
                 /\ rawLine' = [rawLine EXCEPT ![p] = CStr(Store(sh[p].input, sh[p].buffer_pos, NUL), 0)]
                 /\ pc' = [pc EXCEPT ![p] = "check_empty"]
                 /\ UNCHANGED <<pstate, term, diag>>
            ELSE LET pos == sh[p].buffer_pos + 1
                     written == [sh[p] EXCEPT !.input = Store(@, sh[p].buffer_pos, g.c),
                                              !.buffer_pos = pos]
                 IN  /\ UNCHANGED rawLine
                     /\ IF pos >= sh[p].line_size
                        THEN \E ok \in BOOLEAN :
                               shell_not_null(p, ok, "SHELL_ERROR_BUFFER_ALLOC", "read_char",
                                  IF ok
                                  THEN [written EXCEPT
                                          !.line_size = sh[p].line_size * SHELL_INPUT_BUFFER_GROWTH,
                                          !.inputAlloc = sh[p].line_size * SHELL_INPUT_BUFFER_GROWTH]
                                  ELSE [written EXCEPT
                                          !.line_size = sh[p].line_size * SHELL_INPUT_BUFFER_GROWTH])
                        ELSE /\ sh' = [sh EXCEPT ![p] = written]
                             /\ UNCHANGED <<pstate, term, diag, pc>>
    /\ UNCHANGED <<image, parent, stopSeen, lastOut, execFailed, bgChild>>
    /\ UNCHANGED sigchld

(***************************************************************************)
(* shell_repl, after the line is read                                      *)
(***************************************************************************)
\* Mutant of CheckEmpty: an empty line ends the loop (it is taken as the
\* exit signal).
CheckEmpty_ExitOnEmpty(p) ==
    /\ Running(p) /\ pc[p] = "check_empty"
    /\ IF sh[p].input[1] = NUL
       THEN /\ sh' = [sh EXCEPT ![p].input = <<>>, ![p].should_exit = 1]
            /\ rawLine' = [rawLine EXCEPT ![p] = <<>>]
            /\ pc' = [pc EXCEPT ![p] = "loop"]
       ELSE /\ pc' = [pc EXCEPT ![p] = "is_background"]
            /\ UNCHANGED <<sh, rawLine>>
    /\ UNCHANGED <<pstate, image, parent, term, stopSeen, stdio, linesRead, eof, lastOut,
                   diag, execFailed, bgChild>>
    /\ UNCHANGED sigchld

\* if (input[0] == '\0') continue;
\* (the line buffer stays allocated: inputAlloc keeps its size)
CheckEmpty(p) ==
    /\ Running(p) /\ pc[p] = "check_empty"
    /\ IF sh[p].input[1] = NUL
       THEN /\ sh' = [sh EXCEPT ![p].input = <<>>]
            /\ rawLine' = [rawLine EXCEPT ![p] = <<>>]
            /\ pc' = [pc EXCEPT ![p] = "loop"]
       ELSE /\ pc' = [pc EXCEPT ![p] = "is_background"]
            /\ UNCHANGED <<sh, rawLine>>
    /\ UNCHANGED <<pstate, image, parent, term, stopSeen, stdio, linesRead, eof, lastOut,
                   diag, execFailed, bgChild>>
    /\ UNCHANGED sigchld

\* Mutant of shell_is_background: the marker is found and not removed.
shell_is_background_NoStrip(string) ==
    LET length == StrLenAt(string, 0)
    IN  IF length = 0
        THEN [ret |-> 0, string |-> string, ub |-> TRUE]
        ELSE IF string[(length - 1) + 1] = SHELL_EXECUTE_BACKGROUND_TOKEN
        THEN [ret |-> 1, string |-> string, ub |-> FALSE]
        ELSE [ret |-> 0, string |-> string, ub |-> FALSE]

\* shell_is_background: the value returned and the string it leaves.  With an
\* empty string the character before the buffer is read: undefined (ub).
shell_is_background(string) ==
    LET length == StrLenAt(string, 0)
    IN  IF length = 0
        THEN [ret |-> 0, string |-> string, ub |-> TRUE]
        ELSE IF string[(length - 1) + 1] = SHELL_EXECUTE_BACKGROUND_TOKEN
        THEN [ret |-> 1, string |-> [string EXCEPT ![(length - 1) + 1] = NUL], ub |-> FALSE]
        ELSE [ret |-> 0, string |-> string, ub |-> FALSE]

\* int background_execute = shell_is_background(input);
IsBackground(p) ==
    /\ Running(p) /\ pc[p] = "is_background"
    /\ LET r == shell_is_background(sh[p].input)
       IN  sh' = [sh EXCEPT ![p].background_execute = r.ret,
                            ![p].input = r.string]
    /\ pc' = [pc EXCEPT ![p] = "tok_alloc"]
    /\ UNCHANGED <<pstate, image, parent, term, stopSeen, stdio, linesRead, eof, lastOut,
                   diag, rawLine, execFailed, bgChild>>
    /\ UNCHANGED sigchld

(***************************************************************************)
(* shell_tokenize_input                                                    *)
(***************************************************************************)
\* calloc of the token buffer and the check of its result
TokAlloc(p) ==
    /\ Running(p) /\ pc[p] = "tok_alloc"
    /\ \E ok \in BOOLEAN :
         shell_not_null(p, ok, "SHELL_ERROR_TOKEN_ALLOC", "tok_first",
            IF ok
            THEN [sh[p] EXCEPT !.tok_size = SHELL_INPUT_BUFFER_SIZE,
                               !.tokAlloc = SHELL_INPUT_BUFFER_SIZE * (1 * SHELL_INPUT_BUFFER_SIZE),
                               !.token_buffer = <<>>]
            ELSE [sh[p] EXCEPT !.tok_size = SHELL_INPUT_BUFFER_SIZE])
    /\ UNCHANGED <<image, parent, stopSeen, stdio, linesRead, eof, lastOut,
                   rawLine, execFailed, bgChild>>
    /\ UNCHANGED sigchld

\* char* token = strtok(string, SHELL_INPUT_TOKEN_CHARS); size_t token_buffer_pos = 0;
TokFirst(p) ==
    /\ Running(p) /\ pc[p] = "tok_first"
    /\ LET r == StrTok(sh[p].input, 0, SHELL_INPUT_TOKEN_CHARS)
       IN  sh' = [sh EXCEPT ![p].token = r.token,
                            ![p].input = r.buf,
                            ![p].save = r.save,
                            ![p].token_buffer_pos = 0]
    /\ pc' = [pc EXCEPT ![p] = "tok_loop"]
    /\ UNCHANGED <<pstate, image, parent, term, stopSeen, stdio, linesRead, eof, lastOut,
                   diag, rawLine, execFailed, bgChild>>
    /\ UNCHANGED sigchld

\* The token slots realloc keeps when the storage becomes bytes long.
ReallocTokens(tokens, bytes) ==
    [i \in 1..Len(tokens) |-> IF i * PtrSize <= bytes THEN tokens[i] ELSE Indeterminate]

\* Slot i of the token buffer lies inside its storage.
SlotInside(s, i) == (i + 1) * PtrSize <= s.tokAlloc

\* One iteration of the token loop, or, when the tokens are exhausted, the
\* store of the final NULL and the return.  A store outside the storage is
\* undefined: the process is killed, or the store lands and memory is corrupt.
TokLoop(p) ==
    /\ Running(p) /\ pc[p] = "tok_loop"
    /\ \E outcome \in IF SlotInside(sh[p], sh[p].token_buffer_pos)
                     THEN {"inside"} ELSE {"segv", "proceed"} :
         IF outcome = "segv"
         THEN /\ Terminate(p, "signal")
              /\ UNCHANGED <<sh, diag>>
         ELSE LET pos == sh[p].token_buffer_pos
                  stored == [sh[p] EXCEPT !.token_buffer = Store(@, pos, sh[p].token),
                                          !.corrupt = @ \/ outcome = "proceed"]
              IN  IF sh[p].token = NULL
                  THEN /\ sh' = [sh EXCEPT ![p] =
                                   [stored EXCEPT !.token_buffer_pos = 0, !.tok_size = 0,
                                                  !.save = 0]]
                       /\ pc' = [pc EXCEPT ![p] = "execute"]
                       /\ UNCHANGED <<pstate, term, diag>>
                  ELSE LET r == StrTok(sh[p].input, sh[p].save, SHELL_INPUT_TOKEN_CHARS)
                           next == [stored EXCEPT !.token_buffer_pos = pos + 1,
                                                  !.token = r.token,
                                                  !.input = r.buf,
                                                  !.save = r.save]
                       IN  IF pos + 1 >= sh[p].tok_size
                           THEN \E ok \in BOOLEAN :
                                  shell_not_null(p, ok, "SHELL_ERROR_BUFFER_ALLOC", "tok_loop",
                                     IF ok
                                     THEN [next EXCEPT
                                             !.tok_size = sh[p].tok_size * SHELL_INPUT_BUFFER_GROWTH,
                                             !.tokAlloc = sh[p].tok_size * SHELL_INPUT_BUFFER_GROWTH,
                                             !.token_buffer =
                                                 ReallocTokens(@, sh[p].tok_size * SHELL_INPUT_BUFFER_GROWTH)]
                                     ELSE [stored EXCEPT
                                             !.token_buffer_pos = pos + 1,
                                             !.tok_size = sh[p].tok_size * SHELL_INPUT_BUFFER_GROWTH])
                           ELSE /\ sh' = [sh EXCEPT ![p] = next]
                                /\ UNCHANGED <<pstate, term, diag, pc>>
    /\ UNCHANGED <<image, parent, stopSeen, stdio, linesRead, eof, lastOut,
                   rawLine, execFailed, bgChild>>
    /\ UNCHANGED sigchld

(***************************************************************************)
(* shell_execute                                                           *)
(***************************************************************************)
\* arguments[0] is a token (not NULL, not a slot outside the storage).
HasCommand(s) ==
    /\ Len(s.token_buffer) >= 1
    /\ s.token_buffer[1] # NULL
    /\ s.token_buffer[1] # Indeterminate

\* Every slot of arguments up to its NULL holds a token, inside the storage.
ArgsValid(s) ==
    /\ HasCommand(s)
    /\ ~s.corrupt
    /\ \A i \in 1..Len(s.token_buffer) : s.token_buffer[i] # Indeterminate

\* Mutant of IsBuiltinExit: the keywords are compared as prefixes (strncmp).
IsBuiltinExit_Prefix(s) ==
    LET cmd == CStr(s.input, s.token_buffer[1])
    IN  Len(cmd) >= 4 /\ SubSeq(cmd, 1, 4) \in {Str_exit, Str_quit}

\* strcmp(arguments[0], "exit") == 0 || strcmp(arguments[0], "quit") == 0
IsBuiltinExit(s) ==
    \/ CStr(s.input, s.token_buffer[1]) = Str_exit
    \/ CStr(s.input, s.token_buffer[1]) = Str_quit

\* The variables of a process when shell_execute has returned value to
\* shell_repl, which stores it in should_exit.
Returned(s, value) == [s EXCEPT !.should_exit = value, !.pid = 0]

ReturnFromExecute(p, s, value) ==
    /\ sh' = [sh EXCEPT ![p] = Returned(s, value)]
    /\ pc' = [pc EXCEPT ![p] = "free_input"]

\* The comparisons of arguments[0] with the built-in keywords.  With a NULL
\* arguments[0] strcmp reads through the null pointer: the process is killed,
\* or the comparison finds no keyword.
Dispatch(p) ==
    /\ Running(p) /\ pc[p] = "execute"
    /\ IF HasCommand(sh[p])
       THEN IF IsBuiltinExit(sh[p])
            THEN /\ ReturnFromExecute(p, sh[p], 1)
                 /\ UNCHANGED <<pstate, term>>
            ELSE /\ pc' = [pc EXCEPT ![p] = "fork"]
                 /\ UNCHANGED <<pstate, term, sh>>
       ELSE \E outcome \in {"segv", "proceed"} :
              IF outcome = "segv"
              THEN /\ Terminate(p, "signal")
                   /\ UNCHANGED sh
              ELSE /\ pc' = [pc EXCEPT ![p] = "fork"]
                   /\ UNCHANGED <<pstate, term, sh>>
    /\ UNCHANGED <<image, parent, stopSeen, stdio, linesRead, eof, lastOut, diag,
                   rawLine, execFailed, bgChild>>
    /\ UNCHANGED sigchld

FreeSlots == {c \in Procs : pstate[c] = "free"}

\* Mutant of ForkFails: the failure is returned as the exit signal.
ForkFails_Exit(p) ==
    /\ diag' = [diag EXCEPT ![p] = "perror_fork"]
    /\ ReturnFromExecute(p, sh[p], 1)
    /\ UNCHANGED <<pstate, image, parent, stdio, lastOut, rawLine, execFailed, bgChild>>

\* pid = fork() failed: perror(SHELL_NAME); return 0;
ForkFails(p) ==
    /\ diag' = [diag EXCEPT ![p] = "perror_fork"]
    /\ ReturnFromExecute(p, sh[p], 0)
    /\ UNCHANGED <<pstate, image, parent, stdio, lastOut, rawLine, execFailed, bgChild>>

\* Mutant of ForkCreates: the parent returns 0 at once for a foreground
\* command too (the wait loop is left out).
ForkCreates_NoWait(p, c) ==
    /\ pstate' = [pstate EXCEPT ![c] = "run"]
    /\ image' = [image EXCEPT ![c] = "shell"]
    /\ parent' = [parent EXCEPT ![c] = p]
    /\ stdio' = [stdio EXCEPT ![c] = stdio[p]]
    /\ lastOut' = [lastOut EXCEPT ![c] = "none"]
    /\ diag' = [diag EXCEPT ![c] = "none"]
    /\ rawLine' = [rawLine EXCEPT ![c] = rawLine[p]]
    /\ execFailed' = [execFailed EXCEPT ![c] = FALSE]
    /\ bgChild' = [bgChild EXCEPT ![c] = sh[p].background_execute # 0]
    /\ sh' = [sh EXCEPT ![c] = [sh[p] EXCEPT !.pid = 0],
                        ![p] = Returned(sh[p], 0)]
    /\ pc' = [pc EXCEPT ![c] = "exec", ![p] = "free_input"]

\* pid = fork() created child c, a copy of the caller that goes on at execvp;
\* the parent returns 0 at once when background is set and else goes on to wait.
ForkCreates(p, c) ==
    /\ pstate' = [pstate EXCEPT ![c] = "run"]
    /\ image' = [image EXCEPT ![c] = "shell"]
    /\ parent' = [parent EXCEPT ![c] = p]
    /\ stdio' = [stdio EXCEPT ![c] = stdio[p]]
    /\ lastOut' = [lastOut EXCEPT ![c] = "none"]
    /\ diag' = [diag EXCEPT ![c] = "none"]
    /\ rawLine' = [rawLine EXCEPT ![c] = rawLine[p]]
    /\ execFailed' = [execFailed EXCEPT ![c] = FALSE]
    /\ bgChild' = [bgChild EXCEPT ![c] = sh[p].background_execute # 0]
    /\ IF sh[p].background_execute # 0
       THEN /\ sh' = [sh EXCEPT
                        ![c] = [sh[p] EXCEPT !.pid = 0],
                        ![p] = Returned(sh[p], 0)]
            /\ pc' = [pc EXCEPT ![c] = "exec", ![p] = "free_input"]
       ELSE /\ sh' = [sh EXCEPT
                        ![c] = [sh[p] EXCEPT !.pid = 0],
                        ![p] = [sh[p] EXCEPT !.pid = c]]
            /\ pc' = [pc EXCEPT ![c] = "exec", ![p] = "wait"]

\* pid = fork(); and the branch on its result
Fork(p) ==
    /\ Running(p) /\ pc[p] = "fork"
    /\ \/ ForkFails(p)
       \/ /\ FreeSlots # {}
          /\ ForkCreates(p, Min(FreeSlots))
    /\ UNCHANGED <<term, stopSeen, linesRead, eof>>
    /\ UNCHANGED sigchld

\* What execvp(arguments[0], arguments) can do: replace the program, or fail
\* and return -1; with an argument vector that is not a valid one (NULL
\* command, slots outside the storage) it can also kill the process.
ExecOutcomes(s) ==
    IF ArgsValid(s) THEN {"replaced", "failed"}
    ELSE IF ~HasCommand(s) THEN {"failed", "segv"}
    ELSE {"replaced", "failed", "segv"}

\* In the child: execvp(arguments[0], arguments); when it returns -1,
\* perror(SHELL_NAME), and shell_execute returns 0 to the child's shell_repl.
Exec(p) ==
    /\ Running(p) /\ pc[p] = "exec"
    /\ \E outcome \in ExecOutcomes(sh[p]) :
         CASE outcome = "replaced" ->
                /\ image' = [image EXCEPT ![p] = "prog"]
                /\ pc' = [pc EXCEPT ![p] = "none"]
                /\ sh' = [sh EXCEPT ![p] = InitialSh]
                /\ stdio' = [stdio EXCEPT ![p] = <<>>]
                /\ rawLine' = [rawLine EXCEPT ![p] = <<>>]
                /\ UNCHANGED <<diag, execFailed, pstate, term>>
           [] outcome = "failed" ->
                /\ diag' = [diag EXCEPT ![p] = "perror_exec"]
                /\ execFailed' = [execFailed EXCEPT ![p] = TRUE]
                /\ ReturnFromExecute(p, sh[p], 0)
                /\ UNCHANGED <<image, stdio, rawLine, pstate, term>>
           [] outcome = "segv" ->
                /\ Terminate(p, "signal")
                /\ UNCHANGED <<image, stdio, rawLine, diag, execFailed, sh>>
    /\ UNCHANGED <<parent, stopSeen, linesRead, eof, lastOut, bgChild>>
    /\ UNCHANGED sigchld

\* WIFEXITED(status) || WIFSIGNALED(status)
Terminated(status) == status \in {"exit0", "exit1", "signal"}

\* The statuses a successful waitpid(c, &status, WUNTRACED) can report now:
\* the end of c, or a stop of c not reported before.  With SIGCHLD ignored
\* the end of a child is never reported: the child is released without
\* becoming a zombie, and waitpid goes on waiting until it is gone.
WaitReports(c) ==
    (IF pstate[c] = "zombie" /\ sigchld = "default" THEN {term[c]} ELSE {})
    \cup (IF pstate[c] = "stopped" /\ ~stopSeen[c] THEN {"stopped"} ELSE {})

\* Process c is a child of p (waitpid(c, ...) by p fails with ECHILD otherwise).
IsChild(p, c) == pstate[c] # "free" /\ parent[c] = p

\* What an int that was never assigned can read as, through the W* macros.
IndeterminateStatus == {"exit0", "exit1", "signal", "stopped", "other"}

\* waitpid has reported the end of child c: the child is reaped and its
\* process slot is free again.
Reap(c) ==
    /\ pstate' = [pstate EXCEPT ![c] = "free"]
    /\ term' = [term EXCEPT ![c] = "none"]
    /\ parent' = [parent EXCEPT ![c] = 0]
    /\ image' = [image EXCEPT ![c] = "shell"]
    /\ stdio' = [stdio EXCEPT ![c] = <<>>]
    /\ lastOut' = [lastOut EXCEPT ![c] = "none"]
    /\ diag' = [diag EXCEPT ![c] = "none"]
    /\ rawLine' = [rawLine EXCEPT ![c] = <<>>]
    /\ execFailed' = [execFailed EXCEPT ![c] = FALSE]
    /\ bgChild' = [bgChild EXCEPT ![c] = FALSE]
    /\ UNCHANGED stopSeen

\* waitpid has reported a stop of child c.
SeeStop(c) ==
    /\ stopSeen' = [stopSeen EXCEPT ![c] = TRUE]
    /\ UNCHANGED <<pstate, term, parent, image, stdio, lastOut, diag, rawLine,
                   execFailed, bgChild>>

\* Mutant of WaitTarget: waitpid takes the first child (not the one just forked).
WaitTarget_FirstChild(p) ==
    IF \E c \in Procs : IsChild(p, c) THEN Min({c \in Procs : IsChild(p, c)})
    ELSE sh[p].pid

\* The child waitpid is called for.
WaitTarget(p) == sh[p].pid

\* What waitpid(pid, &status, WUNTRACED) by p can return now, with the value
\* status reads as afterwards: the child and its report, or -1 (ECHILD) with
\* status not written, which is the value waitpid stored earlier in this
\* call, or that of the uninitialized local.
WaitOutcomes(p) ==
    LET c == WaitTarget(p)
    IN  IF IsChild(p, c)
        THEN {[ret |-> c, status |-> r] : r \in WaitReports(c)}
        ELSE {[ret |-> -1, status |-> v] :
                 v \in IF sh[p].status = "none" THEN IndeterminateStatus
                       ELSE {sh[p].status}}

\* Mutant of AfterWait: a failed command is returned as the exit signal.
AfterWait_Propagate(s, status) ==
    IF Terminated(status)
    THEN Returned([s EXCEPT !.status = status], IF status = "exit0" THEN 0 ELSE 1)
    ELSE [s EXCEPT !.status = status]

\* The variables of the waiting process after waitpid stored status: the
\* loop goes on, or it ends and shell_execute returns 0.
AfterWait(s, status) ==
    IF Terminated(status)
    THEN Returned([s EXCEPT !.status = status], 0)
    ELSE [s EXCEPT !.status = status]

\* One iteration of do { waitpid(pid, &status, WUNTRACED); }
\* while (!WIFEXITED(status) && !WIFSIGNALED(status)); and, when the loop
\* ends, return 0.  The result of waitpid is not looked at: after a failed
\* call the loop tests whatever status holds.
Wait(p) ==
    /\ Running(p) /\ pc[p] = "wait"
    /\ \E o \in WaitOutcomes(p) :
         /\ IF o.ret = -1
            THEN UNCHANGED <<pstate, term, parent, image, stdio, lastOut, diag, rawLine,
                             execFailed, bgChild, stopSeen>>
            ELSE IF o.status = "stopped" THEN SeeStop(o.ret) ELSE Reap(o.ret)
         /\ sh' = [q \in Procs |->
                     IF q = p THEN AfterWait(sh[p], o.status)
                     ELSE IF q = o.ret /\ o.status # "stopped" THEN InitialSh
                     ELSE sh[q]]
         /\ pc' = [q \in Procs |->
                     IF q = p THEN (IF Terminated(o.status) THEN "free_input" ELSE "wait")
                     ELSE IF q = o.ret /\ o.status # "stopped" THEN "none"
                     ELSE pc[q]]
    /\ UNCHANGED <<linesRead, eof>>
    /\ UNCHANGED sigchld

\* free(input);
FreeInput(p) ==
    /\ Running(p) /\ pc[p] = "free_input"
    /\ sh' = [sh EXCEPT ![p].input = <<>>, ![p].inputAlloc = 0]
    /\ pc' = [pc EXCEPT ![p] = "free_args"]
    /\ UNCHANGED <<pstate, image, parent, term, stopSeen, stdio, linesRead, eof, lastOut,
                   diag, rawLine, execFailed, bgChild>>
    /\ UNCHANGED sigchld

\* Mutant of FreeArgs: the token buffer is not released.
FreeArgs_KeepTokens(p) ==
    /\ Running(p) /\ pc[p] = "free_args"
    /\ sh' = [sh EXCEPT ![p].background_execute = 0, ![p].token = NULL,
                        ![p].status = "none"]
    /\ rawLine' = [rawLine EXCEPT ![p] = <<>>]
    /\ pc' = [pc EXCEPT ![p] = "loop"]
    /\ UNCHANGED <<pstate, image, parent, term, stopSeen, stdio, linesRead, eof, lastOut,
                   diag, execFailed, bgChild>>
    /\ UNCHANGED sigchld

\* free(execute_args); and the end of the loop's body
FreeArgs(p) ==
    /\ Running(p) /\ pc[p] = "free_args"
    /\ sh' = [sh EXCEPT ![p].token_buffer = <<>>, ![p].tokAlloc = 0,
                        ![p].background_execute = 0, ![p].token = NULL,
                        ![p].status = "none", ![p].corrupt = FALSE]
    /\ rawLine' = [rawLine EXCEPT ![p] = <<>>]
    /\ pc' = [pc EXCEPT ![p] = "loop"]
    /\ UNCHANGED <<pstate, image, parent, term, stopSeen, stdio, linesRead, eof, lastOut,
                   diag, execFailed, bgChild>>
    /\ UNCHANGED sigchld

(***************************************************************************)
(* The programs the shell started: they end, are killed, stop or continue. *)
(***************************************************************************)
IsProg(p) == image[p] = "prog"

\* The program ends by exit (status 0 or not) or is killed by a signal.
ProgExit(p) ==
    /\ IsProg(p) /\ pstate[p] = "run"
    /\ \E how \in {"exit0", "exit1", "signal"} :
         /\ pstate' = [pstate EXCEPT ![p] = "zombie"]
         /\ term' = [term EXCEPT ![p] = how]
    /\ UNCHANGED <<image, parent, pc, stopSeen, sh, stdio, linesRead, eof, lastOut, diag,
                   rawLine, execFailed, bgChild>>
    /\ UNCHANGED sigchld

\* A stop signal stops a child, whatever image it runs (the program, or the
\* shell before execvp or after execvp failed).  Only the stop of a child its
\* parent is waiting for is modelled: no other stop is observed by any process.
ProgStop(p) ==
    /\ pstate[p] = "run"
    /\ parent[p] \in Procs
    /\ pc[parent[p]] = "wait" /\ WaitTarget(parent[p]) = p
    /\ pstate' = [pstate EXCEPT ![p] = "stopped"]
    /\ stopSeen' = [stopSeen EXCEPT ![p] = FALSE]
    /\ UNCHANGED <<image, parent, pc, term, sh, stdio, linesRead, eof, lastOut, diag,
                   rawLine, execFailed, bgChild>>
    /\ UNCHANGED sigchld

\* A stopped child is continued.
ProgCont(p) ==
    /\ pstate[p] = "stopped"
    /\ pstate' = [pstate EXCEPT ![p] = "run"]
    /\ UNCHANGED <<image, parent, pc, term, stopSeen, sh, stdio, linesRead, eof, lastOut,
                   diag, rawLine, execFailed, bgChild>>
    /\ UNCHANGED sigchld

\* With SIGCHLD ignored the kernel releases a child that has ended: it is
\* no zombie, and no waitpid reports its end.
AutoReap(c) ==
    /\ sigchld = "ignored"
    /\ pstate[c] = "zombie" /\ parent[c] # 0
    /\ Reap(c)
    /\ sh' = [sh EXCEPT ![c] = InitialSh]
    /\ pc' = [pc EXCEPT ![c] = "none"]
    /\ UNCHANGED <<linesRead, eof>>
    /\ UNCHANGED sigchld

Next ==
    \E p \in Procs :
        \/ Loop(p) \/ Puts(p)
        \/ ReadAlloc(p) \/ ReadChar(p)
        \/ CheckEmpty(p) \/ IsBackground(p)
        \/ TokAlloc(p) \/ TokFirst(p) \/ TokLoop(p)
        \/ Dispatch(p) \/ Fork(p) \/ Exec(p) \/ Wait(p)
        \/ FreeInput(p) \/ FreeArgs(p)
        \/ ProgExit(p) \/ ProgStop(p) \/ ProgCont(p) \/ AutoReap(p)

Spec == Init /\ [][Next]_vars

\* A process blocked in waitpid is resumed when its child has ended or
\* stopped, and a child that has ended with SIGCHLD ignored is released.
FairSpec == Spec /\ \A p \in Procs : WF_vars(Wait(p)) /\ WF_vars(AutoReap(p))

(***************************************************************************)
(* Properties.                                                             *)
(***************************************************************************)
\* The statements of shell_execute.
InExecute(p) == pc[p] \in {"execute", "fork", "exec", "wait"}

\* The command name shell_execute dispatches on.
Command(p) == CStr(sh[p].input, sh[p].token_buffer[1])

\* A line of one or more characters, all of them delimiters.
Blank(line) == Len(line) >= 1 /\ \A i \in 1..Len(line) : line[i] \in {32, 9, 13, 7}

\* C1: a line made only of whitespace characters is skipped: shell_execute
\* is not entered for it, no process is created for it, the shell does not crash.
C1_BlankLineSkipped ==
    \A p \in Procs :
        Blank(rawLine[p]) =>
            /\ ~InExecute(p)
            /\ ~(pc[p] = "ended" /\ term[p] = "signal")

\* C2: a child whose execvp failed never prints a prompt (it ends instead
\* of returning into the loop of shell_repl).
C2_FailedChildNeverPrompts ==
    \A p \in Procs : execFailed[p] => lastOut[p] # "prompt"

\* C3: with a command present, shell_execute returns 1 exactly when
\* arguments[0] is "exit" or "quit", and then straight from the dispatch,
\* with no process created.
C3_ExitIffBuiltin ==
    [][\A p \in Procs :
          (InExecute(p) /\ pc'[p] = "free_input" /\ HasCommand(sh[p])) =>
              /\ sh'[p].should_exit \in {0, 1}
              /\ sh'[p].should_exit = 1 <=> Command(p) \in {Str_exit, Str_quit}
              /\ sh'[p].should_exit = 1 => (pc[p] = "execute" /\ pstate' = pstate)]_vars

C3_Witness ==
    \E p \in Procs :
        /\ pc[p] = "free_input" /\ sh[p].should_exit = 1
        /\ Len(sh[p].token_buffer) = 3

\* C4 as claimed: the loop of a shell process is over only when an executor
\* call has returned the exit signal.
C4_LoopEndsOnlyOnExit ==
    \A p \in Procs : (image[p] = "shell" /\ pc[p] = "ended") => sh[p].should_exit = 1

AllocMessages == {"SHELL_ERROR_BUFFER_ALLOC", "SHELL_ERROR_TOKEN_ALLOC"}

\* C4, amended: shell_repl returns (after one trailing newline, and no
\* prompt after the exit signal) exactly when an executor call returned the
\* exit signal; with any other value of should_exit the loop prompts again;
\* the only other ends of the loop are the end of the process with status 1
\* after a failed allocation and its death by a signal.
C4_ReturnsIffExit ==
    /\ [](\A p \in Procs :
            /\ (image[p] = "shell" /\ pc[p] = "ended" /\ term[p] = "exit0")
                  <=> lastOut[p] = "newline"
            /\ lastOut[p] = "newline" => sh[p].should_exit = 1
            /\ (image[p] = "shell" /\ sh[p].should_exit = 1)
                  => pc[p] \in {"free_input", "free_args", "loop", "puts", "ended"}
            /\ (image[p] = "shell" /\ pc[p] = "ended" /\ term[p] # "exit0")
                  => \/ term[p] = "exit1" /\ diag[p] \in AllocMessages
                     \/ term[p] = "signal")
    /\ [][\A p \in Procs :
            /\ (pc[p] = "loop" /\ pc'[p] # "loop" /\ sh[p].should_exit # 1)
                  => (pc'[p] = "read_alloc" /\ lastOut'[p] = "prompt")
            /\ (pc[p] = "loop" /\ pc'[p] # "loop" /\ sh[p].should_exit = 1)
                  => (pc'[p] = "puts" /\ lastOut'[p] = lastOut[p])
            /\ (pc[p] = "puts" /\ pc'[p] # "puts")
                  => (pc'[p] = "ended" /\ term'[p] = "exit0")
            /\ (pc[p] = "ended" /\ pc'[p] = "ended") => lastOut'[p] = lastOut[p]]_vars

C4_Witness ==
    \E p \in Procs :
        /\ pc[p] = "ended" /\ term[p] = "exit0" /\ lastOut[p] = "newline"
        /\ linesRead = MaxLines

\* C5: a foreground call leaves the wait only for the return of 0, and only
\* when waitpid reported the end (exit or signal) of the child forked by this
\* call; a reported stop keeps it waiting; once the child has ended the call
\* returns.
C5_WaitsForTermination ==
    /\ [][\A p \in Procs :
            /\ (pc[p] = "fork" /\ pc'[p] = "wait")
                  => /\ sh[p].background_execute = 0
                     /\ pstate[sh'[p].pid] = "free" /\ pstate'[sh'[p].pid] = "run"
                     /\ parent'[sh'[p].pid] = p
            /\ (pc[p] = "fork" /\ pc'[p] # "fork" /\ sh[p].background_execute = 0
                  /\ pstate' # pstate)
                  => pc'[p] = "wait"
            /\ (pc[p] = "wait" /\ pc'[p] # "wait")
                  => /\ pc'[p] = "free_input" /\ sh'[p].should_exit = 0
                     /\ pstate[sh[p].pid] = "zombie"
                     /\ term[sh[p].pid] \in {"exit0", "exit1", "signal"}
                     /\ sh'[p].status = term[sh[p].pid]
                     /\ pstate'[sh[p].pid] = "free"
            /\ (pc[p] = "wait" /\ sh'[p].status = "stopped") => pc'[p] = "wait"]_vars
    /\ \A p \in Procs :
          (pc[p] = "wait" /\ pstate[sh[p].pid] = "zombie") ~> (pc[p] # "wait")

\* C6 as claimed: a background call returns 0 in the parent in the step
\* that creates the child, which is then running; no process ever waits for
\* a background child, and a background child is never reaped: the set of
\* unreaped background children only grows.
C6_BackgroundNeverReaped ==
    /\ [](\A p \in Procs : (pc[p] = "wait" /\ IsChild(p, sh[p].pid)) => ~bgChild[sh[p].pid])
    /\ [][/\ \A p \in Procs :
               (pc[p] = "fork" /\ pc'[p] # "fork" /\ sh[p].background_execute # 0
                  /\ pstate' # pstate)
                  => /\ pc'[p] = "free_input" /\ sh'[p].should_exit = 0
                     /\ \E c \in Procs :
                          /\ pstate[c] = "free" /\ pstate'[c] = "run"
                          /\ bgChild'[c] /\ parent'[c] = p
          /\ \A c \in Procs :
               (bgChild[c] /\ pstate[c] # "free") => (bgChild'[c] /\ pstate'[c] # "free")]_vars

\* C6, amended: a background call returns 0 in the parent in the step that
\* creates the child, which is then running; no process ever waits for a
\* background child; a background child stays unreaped, but for the one that
\* has ended with SIGCHLD ignored: that one is released in a step of no
\* shell process (no waitpid returns for it).
C6_ShellNeverReapsBackground ==
    /\ [](\A p \in Procs : (pc[p] = "wait" /\ IsChild(p, sh[p].pid)) => ~bgChild[sh[p].pid])
    /\ [][/\ \A p \in Procs :
               (pc[p] = "fork" /\ pc'[p] # "fork" /\ sh[p].background_execute # 0
                  /\ pstate' # pstate)
                  => /\ pc'[p] = "free_input" /\ sh'[p].should_exit = 0
                     /\ \E c \in Procs :
                          /\ pstate[c] = "free" /\ pstate'[c] = "run"
                          /\ bgChild'[c] /\ parent'[c] = p
          /\ \A c \in Procs :
               (bgChild[c] /\ pstate[c] # "free") =>
                   \/ bgChild'[c] /\ pstate'[c] # "free"
                   \/ /\ sigchld = "ignored" /\ pstate[c] = "zombie"
                      /\ \A p \in Procs \ {c} : pc'[p] = pc[p] /\ sh'[p] = sh[p]]_vars

C6_Witness ==
    \E p, c \in Procs :
        /\ sigchld = "default"
        /\ bgChild[c] /\ parent[c] = p /\ pstate[c] = "zombie"
        /\ pc[p] = "wait" /\ sh[p].pid # c
        /\ pstate[sh[p].pid] = "zombie"

\* C7: with a command that is neither "exit" nor "quit", shell_execute
\* returns 0 whatever the child did; the return leaves every variable of the
\* shell as it was, but for the value returned and the status read.
C7_ContinueWhateverStatus ==
    [][\A p \in Procs :
          (InExecute(p) /\ pc'[p] = "free_input" /\ HasCommand(sh[p])
             /\ Command(p) \notin {Str_exit, Str_quit}) =>
              /\ sh'[p].should_exit = 0
              /\ [sh'[p] EXCEPT !.status = "none"]
                    = [sh[p] EXCEPT !.should_exit = 0, !.pid = 0, !.status = "none"]
              /\ lastOut'[p] = lastOut[p] /\ stdio'[p] = stdio[p]
              /\ rawLine'[p] = rawLine[p]]_vars

C7_Witness ==
    \E p \in Procs :
        /\ pc[p] = "free_input" /\ sh[p].should_exit = 0
        /\ sh[p].status \in {"exit1", "signal"}

\* C8: when fork creates no process, the failure is reported and
\* shell_execute returns 0 at once; a reported fork failure created no
\* process, and after it the process is past shell_execute (it never waits)
\* and its loop goes on.
C8_ForkFailureContinues ==
    /\ [](\A p \in Procs :
            diag[p] = "perror_fork" =>
                /\ pc[p] \in {"free_input", "free_args", "loop"}
                /\ sh[p].should_exit = 0)
    /\ [][\A p \in Procs :
            /\ (pc[p] = "fork" /\ pc'[p] # "fork" /\ pstate' = pstate)
                  => /\ diag'[p] = "perror_fork"
                     /\ pc'[p] = "free_input" /\ sh'[p].should_exit = 0
            /\ (diag'[p] = "perror_fork" /\ diag[p] # "perror_fork")
                  => (pc[p] = "fork" /\ pstate' = pstate /\ parent' = parent)
            /\ (diag[p] = "perror_fork" /\ pc[p] = "loop" /\ pc'[p] # "loop")
                  => pc'[p] = "read_alloc"]_vars

C8_Witness ==
    \E p \in Procs :
        /\ diag[p] = "perror_fork" /\ pc[p] = "loop"
        /\ FreeSlots = Procs \ {p}

\* C9: a failed allocation (first or growth, line or token buffer) prints its
\* message and ends the process with status 1 in the same step; of that step
\* only the store that filled the capacity, before the growth was asked for,
\* is kept: nothing is allocated, no token is fetched after it and no process
\* is created; the process never runs again; a shell process ends with
\* status 1 for no other reason, and the other diagnostics (fork, execvp) do
\* not end the process.
C9_AllocationFailureIsFatal ==
    /\ [](\A p \in Procs :
            image[p] = "shell" =>
                /\ diag[p] \in AllocMessages <=> (pc[p] = "ended" /\ term[p] = "exit1")
                /\ diag[p] \in {"perror_fork", "perror_exec"} => pc[p] # "ended")
    /\ [][\A p \in Procs :
            /\ (pc[p] # "ended" /\ pc'[p] = "ended" /\ term'[p] = "exit1")
                  => /\ pc[p] \in {"read_alloc", "read_char", "tok_alloc", "tok_loop"}
                     /\ \A c \in Procs \ {p} : pstate'[c] = pstate[c] /\ sh'[c] = sh[c]
                     /\ sh'[p].inputAlloc = sh[p].inputAlloc
                     /\ sh'[p].tokAlloc = sh[p].tokAlloc
                     /\ pc[p] \in {"read_alloc", "tok_alloc"} =>
                           /\ sh'[p].input = sh[p].input
                           /\ sh'[p].token_buffer = sh[p].token_buffer
                     /\ pc[p] = "read_char" =>
                           /\ Len(sh'[p].input) = sh[p].line_size
                           /\ sh'[p].buffer_pos = sh[p].line_size
                           /\ sh'[p].token_buffer = sh[p].token_buffer
                     /\ pc[p] = "tok_loop" =>
                           /\ Len(sh'[p].token_buffer) = sh[p].tok_size
                           /\ sh'[p].token_buffer_pos = sh[p].tok_size
                           /\ sh'[p].token = sh[p].token /\ sh'[p].save = sh[p].save
                           /\ sh'[p].input = sh[p].input
            /\ (pc[p] = "ended" /\ term[p] = "exit1" /\ pc'[p] = "ended")
                  => /\ sh'[p] = sh[p] /\ stdio'[p] = stdio[p] /\ lastOut'[p] = lastOut[p]
                     /\ \A c \in Procs : parent'[c] = p => parent[c] = p]_vars

C9_Witness ==
    \E p \in Procs :
        /\ pc[p] = "ended" /\ term[p] = "exit1"
        /\ diag[p] = "SHELL_ERROR_BUFFER_ALLOC"
        /\ Len(sh[p].token_buffer) = SHELL_INPUT_BUFFER_SIZE
        /\ sh[p].token_buffer_pos = SHELL_INPUT_BUFFER_SIZE

\* C10: on a line of one or more characters shell_is_background returns 1
\* exactly when the last character is '&'; it then removes that one
\* character and changes no other, and when it returns 0 it changes nothing.
C10_BackgroundMarker ==
    [][\A p \in Procs :
          (pc[p] = "is_background" /\ pc'[p] = "tok_alloc") =>
              LET line  == CStr(sh[p].input, 0)
                  after == CStr(sh'[p].input, 0)
              IN  /\ line = rawLine[p] /\ Len(line) >= 1
                  /\ sh'[p].background_execute \in {0, 1}
                  /\ sh'[p].background_execute = 1 <=> line[Len(line)] = 38
                  /\ sh'[p].background_execute = 1 => after = SubSeq(line, 1, Len(line) - 1)
                  /\ sh'[p].background_execute = 0 => sh'[p].input = sh[p].input]_vars

C10_Witness ==
    \E p \in Procs :
        /\ pc[p] = "tok_alloc" /\ sh[p].background_execute = 1
        /\ rawLine[p] = <<108, 115, 32, 45, 108, 97, 32, 38>>
        /\ CStr(sh[p].input, 0) = <<108, 115, 32, 45, 108, 97, 32>>

\* The line shell_tokenize_input was given in this iteration: the line read,
\* without its last character when shell_is_background removed it.
Tokenized(p) ==
    IF sh[p].background_execute = 1
    THEN SubSeq(rawLine[p], 1, Len(rawLine[p]) - 1)
    ELSE rawLine[p]

\* The positions of line where a maximal run of non-delimiters begins.
RunStarts(line) ==
    {i \in 1..Len(line) :
        /\ line[i] \notin SHELL_INPUT_TOKEN_CHARS
        /\ i = 1 \/ line[i - 1] \in SHELL_INPUT_TOKEN_CHARS}

\* The maximal run of non-delimiters of line that begins at position i.
RunAt(line, i) ==
    LET stop == CHOOSE j \in i..(Len(line) + 1) :
                    /\ j = Len(line) + 1 \/ line[j] \in SHELL_INPUT_TOKEN_CHARS
                    /\ \A k \in i..(j - 1) : line[k] \notin SHELL_INPUT_TOKEN_CHARS
    IN  SubSeq(line, i, stop - 1)

\* The token sequence of s is the maximal runs of non-delimiters of line,
\* left to right, followed by NULL.
IsTokenization(s, line) ==
    LET tokens == s.token_buffer
        n      == Len(tokens)
    IN  /\ n = Cardinality(RunStarts(line)) + 1
        /\ tokens[n] = NULL
        /\ \A k \in 1..(n - 1) :
              /\ tokens[k] + 1 \in RunStarts(line)
              /\ k > 1 => tokens[k - 1] < tokens[k]
              /\ CStr(s.input, tokens[k]) = RunAt(line, tokens[k] + 1)

\* C11: for every line, what shell_tokenize_input returns is the maximal
\* runs of non-delimiter characters of the line, in order, then NULL.
C11_TokensAreMaximalRuns ==
    \A p \in Procs : pc[p] = "execute" => IsTokenization(sh[p], Tokenized(p))

\* A step of shell_read_input's loop by process p.
ReadStep(p) == pc[p] = "read_char" /\ (pc'[p] # pc[p] \/ sh'[p] # sh[p])

\* C12: each character getchar returns before the newline or the end of the
\* stream is stored after the ones stored before, which stay as they were,
\* growth included; the newline is not stored; the terminator follows the
\* last character; the line returned is the characters stored; every store
\* is at an index below the capacity, which is not above the allocated size.
C12_ReadIsExact ==
    /\ [](\A p \in Procs :
            (pc[p] = "read_char" /\ pstate[p] # "free") =>
                /\ sh[p].buffer_pos = Len(sh[p].input)
                /\ sh[p].buffer_pos < sh[p].line_size
                /\ sh[p].line_size <= sh[p].inputAlloc)
    /\ [][\A p \in Procs :
            /\ (ReadStep(p) /\ pc'[p] = "read_char") =>
                  /\ Len(sh'[p].input) = Len(sh[p].input) + 1
                  /\ SubSeq(sh'[p].input, 1, Len(sh[p].input)) = sh[p].input
                  /\ sh'[p].input[Len(sh'[p].input)] \notin {NL, EOF}
                  /\ stdio[p] # <<>> =>
                        /\ sh'[p].input[Len(sh'[p].input)] = Head(stdio[p])
                        /\ stdio'[p] = Tail(stdio[p])
                  /\ sh'[p].line_size \in
                        {sh[p].line_size, sh[p].line_size * SHELL_INPUT_BUFFER_GROWTH}
            /\ (ReadStep(p) /\ pc'[p] = "check_empty") =>
                  /\ sh'[p].input = Append(sh[p].input, NUL)
                  /\ rawLine'[p] = sh[p].input
                  /\ stdio[p] # <<>> => Head(stdio[p]) = NL]_vars

C12_Witness ==
    \E p \in Procs :
        /\ pc[p] = "check_empty" /\ sh[p].inputAlloc = 2 * SHELL_INPUT_BUFFER_SIZE
        /\ rawLine[p] = Rep(<<120>>, SHELL_INPUT_BUFFER_SIZE)
        /\ sh[p].input = Append(Rep(<<120>>, SHELL_INPUT_BUFFER_SIZE), NUL)

\* C13: when an iteration of the loop begins (or the loop is left) no line
\* buffer and no token buffer allocated by an earlier iteration is live.
C13_NothingLiveAtLoopStart ==
    \A p \in Procs :
        pc[p] \in {"loop", "puts"} => (sh[p].inputAlloc = 0 /\ sh[p].tokAlloc = 0)

\* C14: the slot the tokenizer writes next lies inside the token storage,
\* and every token stored so far is still in it, however many tokens there are.
C14_TokenGrowthLossless ==
    \A p \in Procs :
        pc[p] = "tok_loop" =>
            /\ SlotInside(sh[p], sh[p].token_buffer_pos)
            /\ \A i \in 1..Len(sh[p].token_buffer) : sh[p].token_buffer[i] # Indeterminate

\* C15: whenever shell_execute is entered, arguments[0] is a token (not
\* NULL); stated here for the lines that hold a character other than a
\* delimiter, "&" among them (the lines of delimiters alone are those of C1).
C15_DispatchHasCommand ==
    \A p \in Procs :
        (pc[p] = "execute" /\ ~Blank(rawLine[p])) => sh[p].token_buffer[1] # NULL

\* The input stream holds nothing more for process p.
Exhausted(p) == eof /\ stdio[p] = <<>>

\* C16 as claimed: with the stream exhausted, a shell process that is not
\* in the middle of a line and has no exit signal never ends.
C16_NeverEndsAfterEOF ==
    \A p \in Procs :
        (image[p] = "shell" /\ Exhausted(p) /\ rawLine[p] = <<>> /\ pc[p] = "ended")
            => sh[p].should_exit = 1

\* C16, amended: the end of the stream stays; with the stream exhausted a
\* read ends the line at once, so a partial line is returned as it is and goes
\* on to the command, and otherwise the line is empty and the iteration is
\* skipped: back to the loop, which prompts and reads again; none of these
\* steps creates a process; the process ends there only with status 1 on a
\* failed allocation.
C16_SpinsAfterEOF ==
    /\ [](\A p \in Procs :
            (image[p] = "shell" /\ Exhausted(p) /\ rawLine[p] = <<>> /\ pc[p] = "ended"
               /\ sh[p].should_exit # 1)
                => (term[p] = "exit1" /\ diag[p] \in AllocMessages))
    /\ [][/\ eof => eof'
          /\ \A p \in Procs :
               /\ (Exhausted(p) /\ ReadStep(p))
                     => /\ pc'[p] = "check_empty" /\ Exhausted(p)'
                        /\ rawLine'[p] = sh[p].input
               /\ (pc[p] = "check_empty" /\ pc'[p] # pc[p])
                     => /\ rawLine[p] = <<>> => (pc'[p] = "loop" /\ sh'[p].should_exit = sh[p].should_exit)
                        /\ rawLine[p] # <<>> => pc'[p] = "is_background"
               /\ (pc[p] = "loop" /\ pc'[p] # pc[p] /\ sh[p].should_exit # 1)
                     => (pc'[p] = "read_alloc" /\ lastOut'[p] = "prompt")
               /\ (pc[p] = "read_alloc" /\ pc'[p] # pc[p])
                     => \/ pc'[p] = "read_char" /\ sh'[p].buffer_pos = 0
                        \/ pc'[p] = "ended" /\ term'[p] = "exit1"
               /\ (pc[p] \in {"loop", "read_alloc", "read_char", "check_empty"}
                     /\ pc'[p] # pc[p])
                     => \A c \in Procs \ {p} : pstate'[c] = pstate[c]]_vars

C16_Witness ==
    \E p \in Procs :
        /\ pc[p] = "loop" /\ Exhausted(p) /\ lastOut[p] = "prompt"
        /\ sh[p].inputAlloc > 0 /\ sh[p].should_exit = 0
        /\ linesRead = MaxLines

\* The line read by p ends with the background marker.
EndsWithMarker(p) ==
    Len(rawLine[p]) >= 1 /\ rawLine[p][Len(rawLine[p])] = SHELL_EXECUTE_BACKGROUND_TOKEN

\* C17: for a line that ends with '&', the string the tokenizer is given is
\* the line without that character, with the background flag already set;
\* shell_execute is entered with the flag set and the maximal runs of the
\* shortened line as its tokens; the place of the removed marker holds the
\* terminator from then on and no token reaches it.
C17_MarkerRemovedBeforeTokenize ==
    \A p \in Procs :
        (EndsWithMarker(p) /\ pstate[p] = "run") =>
            LET stripped == SubSeq(rawLine[p], 1, Len(rawLine[p]) - 1)
            IN  /\ pc[p] \in {"tok_alloc", "tok_first"} =>
                      /\ sh[p].background_execute = 1
                      /\ CStr(sh[p].input, 0) = stripped
                /\ pc[p] \in {"tok_loop", "execute", "fork", "exec", "wait"} =>
                      /\ sh[p].background_execute = 1
                      /\ sh[p].input[Len(rawLine[p])] = NUL
                      /\ \A k \in 1..Len(sh[p].token_buffer) :
                            sh[p].token_buffer[k] \notin {NULL, Indeterminate} =>
                                sh[p].token_buffer[k] + Len(CStr(sh[p].input, sh[p].token_buffer[k]))
                                    < Len(rawLine[p])
                /\ pc[p] = "execute" => IsTokenization(sh[p], stripped)

\* C18 as claimed: in no state is the line buffer released while the token
\* buffer, whose tokens point into it, is still allocated.
C18_TokensNeverOutliveLine ==
    \A p \in Procs : sh[p].tokAlloc > 0 => sh[p].inputAlloc > 0

\* C18, amended: the token buffer outlives the line buffer only between
\* free(input) and free(execute_args); the statements that read the line or a
\* token (strtok, strcmp, execvp) run with the line buffer allocated; the
\* step after free(input) releases the token buffer.
C18_NoTokenReadAfterRelease ==
    /\ [](\A p \in Procs :
            /\ (sh[p].tokAlloc > 0 /\ sh[p].inputAlloc = 0) => pc[p] = "free_args"
            /\ pc[p] \in {"tok_first", "tok_loop", "execute", "fork", "exec", "wait"}
                  => sh[p].inputAlloc > 0)
    /\ [][\A p \in Procs :
            (pc[p] = "free_args" /\ pc'[p] # pc[p])
                => (pc'[p] = "loop" /\ sh'[p].tokAlloc = 0 /\ sh'[p].token_buffer = <<>>)]_vars

C18_Witness ==
    \E p \in Procs :
        /\ pc[p] = "free_args" /\ sh[p].inputAlloc = 0 /\ sh[p].tokAlloc > 0
        /\ Len(sh[p].token_buffer) = 3 /\ sh[p].token_buffer[2] > 0

\* Child c was forked for a foreground command and is not yet reaped.
ForegroundChild(c) == pstate[c] # "free" /\ parent[c] \in Procs /\ ~bgChild[c]

\* C19: a process in the foreground wait prints nothing, reads nothing and
\* leaves the wait only for the return of shell_execute, when its child has
\* ended (it is a zombie, or gone when SIGCHLD is ignored); the foreground
\* children not reaped are the children being waited for, at most one for
\* each process in the wait and none for any other process.
C19_BlockedWhileWaiting ==
    /\ [](\A c \in Procs :
            /\ ForegroundChild(c) => (pc[parent[c]] = "wait" /\ sh[parent[c]].pid = c)
            /\ pc[c] = "wait" =>
                  \/ ForegroundChild(sh[c].pid) /\ parent[sh[c].pid] = c
                  \/ sigchld = "ignored" /\ ~IsChild(c, sh[c].pid))
    /\ [][\A p \in Procs :
            pc[p] = "wait" =>
                /\ lastOut'[p] = lastOut[p] /\ stdio'[p] = stdio[p]
                /\ rawLine'[p] = rawLine[p] /\ diag'[p] = diag[p]
                /\ pc'[p] \in {"wait", "free_input"}
                /\ pc'[p] = "free_input" =>
                      \/ IsChild(p, sh[p].pid) /\ pstate[sh[p].pid] = "zombie"
                      \/ sigchld = "ignored" /\ ~IsChild(p, sh[p].pid)]_vars

C19_Witness ==
    \E p, c \in Procs :
        /\ pc[p] = "wait" /\ sh[p].pid # c
        /\ image[sh[p].pid] = "prog" /\ pstate[sh[p].pid] = "run"
        /\ parent[c] = p /\ bgChild[c] /\ pstate[c] = "run"
        /\ linesRead = MaxLines /\ lastOut[p] = "prompt"

\* The processes that are running the statements of the loop of shell_repl
\* (not blocked in the foreground wait, not a child on its way to execvp).
InLoop ==
    {p \in Procs :
        /\ Running(p)
        /\ pc[p] \in {"loop", "puts", "read_alloc", "read_char", "check_empty",
                      "is_background", "tok_alloc", "tok_first", "tok_loop",
                      "execute", "fork", "free_input", "free_args"}}

\* C20: at most one process at a time is running the loop of shell_repl.
C20_OneLoopProcess == Cardinality(InLoop) <= 1

====
